---- MODULE Spec2Model ----
(***************************************************************************)
(* Model of vre::VreApp (VulkanRenderer/vre_app.cpp): the constructor, the *)
(* frame loop run(), drawFrame(), recreateSwapChain() and the command      *)
(* buffer helpers.  The program is single threaded; pc is the position of  *)
(* that thread.  Window state (extent, resize flag, close flag) changes    *)
(* only while the program is inside glfwPollEvents / glfwWaitEvents, where *)
(* GLFW runs the window callbacks.                                         *)
(***************************************************************************)
EXTENDS Integers, Sequences, FiniteSets, TLC

\* ---------------------------------------------------------------- bounds
\* largest image count a swap chain reports
MaxImages == 2
\* freeCommandBuffers on its own: largest small set, and most buffers the
\* pool has handed out to other owners
MaxHeld == 40
MaxOthers == 2
\* most glfwWaitEvents calls of one recreateSwapChain that the trace records;
\* later iterations of the polling loop run unrecorded
MaxPolls == 2

\* ------------------------------------------------------------- constants
\* the extents the window reports: minimised in either or both dimensions,
\* and two sizes with area
Extents == {<<0, 0>>, <<0, 600>>, <<800, 0>>, <<800, 600>>, <<1280, 720>>}
ImageCounts == 1..MaxImages

\* an empty std::unique_ptr<VreSwapChain> / std::unique_ptr<VrePipeline>
NullSwapChain == [serial |-> -1, extent |-> <<0, 0>>, imageCount |-> 0]
NullPipeline == [renderPass |-> -1]

VK_SUCCESS == "VK_SUCCESS"
VK_SUBOPTIMAL_KHR == "VK_SUBOPTIMAL_KHR"
VK_ERROR_OUT_OF_DATE_KHR == "VK_ERROR_OUT_OF_DATE_KHR"
VK_ERROR_DEVICE_LOST == "VK_ERROR_DEVICE_LOST"
VK_NOT_READY == "VK_NOT_READY"

\* what VreSwapChain::acquireNextImage can hand back
AcquireResults == {VK_SUCCESS, VK_SUBOPTIMAL_KHR, VK_ERROR_OUT_OF_DATE_KHR,
                   VK_ERROR_DEVICE_LOST, VK_NOT_READY}
\* what VreSwapChain::submitCommandBuffers can hand back
SubmitResults == {VK_SUCCESS, VK_SUBOPTIMAL_KHR, VK_ERROR_OUT_OF_DATE_KHR,
                  VK_ERROR_DEVICE_LOST}

NoError == "none"
AcquireError == "failed to acquire swap chain image!"
PresentError == "failed to present swap chain image!"
RecordError == "failed to begin recording command buffer!"
AllocationError == "failed to allocate command buffers!"
LayoutError == "failed to create pipeline layout!"
OutOfRange == "commandBuffers[imageIndex] out of range"

VARIABLES
    pc,             \* position of the single thread
    caller,         \* who called recreateSwapChain: "ctor", "acquire", "submit"
    winExtent,      \* VreWindow: current extent (width, height)
    resized,        \* VreWindow: framebuffer-resized flag
    shouldClose,    \* VreWindow: close requested
    extent,         \* recreateSwapChain: local variable extent
    vreSwapChain,   \* NullSwapChain or [serial, extent, imageCount]
    vrePipeline,    \* NullPipeline or [renderPass]: serial of the swap chain used
    pipelineLayout, \* TRUE once created
    commandBuffers, \* sequence of command buffer handles
    pool,           \* handles outstanding from the device's command pool
    imageIndex,     \* drawFrame: local variable imageIndex
    error,          \* NoError or the message of the exception thrown
    trace,          \* calls made by the current constructor / drawFrame call
    freeCase        \* freeCommandBuffers on its own: the set it is called on

vars == <<pc, caller, winExtent, resized, shouldClose, extent, vreSwapChain,
          vrePipeline, pipelineLayout, commandBuffers, pool, imageIndex,
          error, trace, freeCase>>

\* ---------------------------------------------------------------- helpers
Ev(op, ext, n, res) == [op |-> op, ext |-> ext, n |-> n, res |-> res]
NoExt == <<0, 0>>
Log(op) == Append(trace, Ev(op, NoExt, 0, "-"))
LogExt(op, e) == Append(trace, Ev(op, e, 0, "-"))
LogN(op, n, res) == Append(trace, Ev(op, NoExt, n, res))

Range(s) == {s[i] : i \in 1..Len(s)}
Count(s, op) == Cardinality({i \in 1..Len(s) : s[i].op = op})
Positions(s, op) == {i \in 1..Len(s) : s[i].op = op}
\* a call of the polling loop: recorded for the first MaxPolls iterations,
\* then one "more" entry stands for all that follow
LogLoop(op, n) ==
    IF Count(trace, "glfwWaitEvents") < MaxPolls THEN LogN(op, n, "-")
    ELSE IF trace[Len(trace)].op = "more" THEN trace
    ELSE Log("more")

\* variant of line 142: && written for ||
ZeroExtent_Both(e) == e[1] = 0 /\ e[2] = 0

\* line 142, the loop condition of recreateSwapChain
ZeroExtent(e) == e[1] = 0 \/ e[2] = 0

\* 2^24: up to here every integer is a single-precision float
FloatExactMax == 16777216

\* the spacing of single-precision floats at n: 1 below 2^24, doubling with
\* every further power of two
RECURSIVE FloatUlp(_)
FloatUlp(n) == IF n < FloatExactMax THEN 1 ELSE 2 * FloatUlp(n \div 2)

\* variant of line 89: the count cast to uint32_t, as line 77 does
FloatCast_Exact(n) == n

\* line 89: static_cast<float>(commandBuffers.size()), rounded to the
\* nearest float (ties to the even mantissa) and converted back to the
\* uint32_t parameter commandBufferCount
FloatCast(n) ==
    LET u == FloatUlp(n)
        q == n \div u
        r == n % u
    IN IF 2 * r < u THEN q * u
       ELSE IF 2 * r > u THEN (q + 1) * u
       ELSE IF q % 2 = 0 THEN q * u ELSE (q + 1) * u

\* vkAllocateCommandBuffers: n handles not currently outstanding
RECURSIVE FreshHandles(_, _, _)
FreshHandles(used, n, h) ==
    IF n = 0 THEN <<>>
    ELSE IF h \in used THEN FreshHandles(used, n, h + 1)
    ELSE <<h>> \o FreshHandles(used, n - 1, h + 1)

\* freeCommandBuffers is not being looked at on its own
NoFreeCase == [size |-> 0, outstanding |-> 0, others |-> 0, calls |-> 0,
               fault |-> FALSE]

Init ==
    /\ pc = "ctor_layout"
    /\ caller = "ctor"
    /\ winExtent \in Extents
    /\ resized = FALSE
    /\ shouldClose = FALSE
    /\ extent = NoExt
    /\ vreSwapChain = NullSwapChain
    /\ vrePipeline = NullPipeline
    /\ pipelineLayout = FALSE
    /\ commandBuffers = <<>>
    /\ pool = {}
    /\ imageIndex = 0
    /\ error = NoError
    /\ trace = <<>>
    /\ freeCase = NoFreeCase

\* ------------------------------------------------- decisions of the code
\* variants of line 155 a slip would produce: the test dropped, the test
\* taken for "more images than buffers", the test always taken
NeedRealloc_Never(sc, cbs) == FALSE
NeedRealloc_OnlyGrow(sc, cbs) == sc.imageCount > Len(cbs)
NeedRealloc_Always(sc, cbs) == TRUE

\* line 155: vreSwapChain->imageCount() != commandBuffers.size()
NeedRealloc(sc, cbs) == sc.imageCount # Len(cbs)

\* variant of line 170: out of date not told apart from other failures
AcquireOutOfDate_Never(r) == FALSE

\* line 170: result == VK_ERROR_OUT_OF_DATE_KHR
AcquireOutOfDate(r) == r = VK_ERROR_OUT_OF_DATE_KHR

\* variant of line 175: suboptimal treated as a failure
AcquireFatal_SuccessOnly(r) == r # VK_SUCCESS

\* line 175: result != VK_SUCCESS && result != VK_SUBOPTIMAL_KHR
AcquireFatal(r) == r # VK_SUCCESS /\ r # VK_SUBOPTIMAL_KHR

\* variant of line 183: the resize notification not consulted
NeedRecreate_NoResize(r, wasResized) ==
    r = VK_ERROR_OUT_OF_DATE_KHR \/ r = VK_SUBOPTIMAL_KHR

\* variant of line 183: the swap chain recreated after every frame
NeedRecreate_Always(r, wasResized) == TRUE

\* line 183: out of date, suboptimal, or the window was resized
NeedRecreate(r, wasResized) ==
    r = VK_ERROR_OUT_OF_DATE_KHR \/ r = VK_SUBOPTIMAL_KHR \/ wasResized

\* line 189: result != VK_SUCCESS
PresentFatal(r) == r # VK_SUCCESS

\* lines 150-154: the swap chain built from the local extent; the driver
\* chooses the image count.  Swap chain objects (and their render passes)
\* are told apart by a small cyclic serial.
NewSwapChain(old, e, n) ==
    [serial |-> IF old = NullSwapChain THEN 0 ELSE (old.serial + 1) % 3,
     extent |-> e,
     imageCount |-> n]

\* lines 69-82, commandBuffers.resize(imageCount) whose entries the
\* allocation then overwrites; 0 is the null handle
Resized(cbs, n) == [i \in 1..n |-> IF i <= Len(cbs) THEN cbs[i] ELSE 0]
AllocatedBuffers(cbs, used, n, ok) ==
    IF ok THEN FreshHandles(used, n, 1) ELSE Resized(cbs, n)

\* variant of lines 84-92: the set cleared without returning the buffers
FreedBuffers_None(cbs) == {}

\* lines 84-92: the buffers vkFreeCommandBuffers returns to the pool
FreedBuffers(cbs) == {cbs[i] : i \in 1..FloatCast(Len(cbs))}

\* ----------------------------------------------------------- window layer
\* GLFW runs the window callbacks inside glfwPollEvents / glfwWaitEvents:
\* a framebuffer-size callback stores the new extent and raises the resize
\* flag, a close request raises the close flag.
DeliverEvents ==
    \E resize \in BOOLEAN, e \in Extents, close \in BOOLEAN :
        /\ winExtent' = IF resize THEN e ELSE winExtent
        /\ resized' = (resized \/ resize)
        /\ shouldClose' = (shouldClose \/ close)

Throw(msg) == pc' = "failed" /\ error' = msg

\* the call recreateSwapChain() made from site c, with the trace so far t
CallRecreate(c, t) ==
    /\ caller' = c
    /\ trace' = Append(t, Ev("recreateSwapChain", NoExt, 0, "-"))
    /\ pc' = "rs_read0"

\* ------------------------------------------------------------ constructor
\* variant of lines 11-13: recreateSwapChain() without createPipelineLayout()
CtorCreatePipelineLayout_Skipped ==
    /\ pc = "ctor_layout"
    /\ CallRecreate("ctor", trace)
    /\ UNCHANGED <<winExtent, resized, shouldClose, extent, vreSwapChain,
                   vrePipeline, pipelineLayout, commandBuffers, pool,
                   imageIndex, error, freeCase>>

\* lines 9-13: loadModels, createPipelineLayout, then recreateSwapChain()
CtorCreatePipelineLayout ==
    /\ pc = "ctor_layout"
    /\ UNCHANGED freeCase
    /\ \E ok \in BOOLEAN :
        IF ok
        THEN /\ pipelineLayout' = TRUE
             /\ CallRecreate("ctor", Log("createPipelineLayout"))
             /\ error' = error
        ELSE /\ Throw(LayoutError)
             /\ trace' = Log("createPipelineLayout")
             /\ UNCHANGED <<pipelineLayout, caller>>
    /\ UNCHANGED <<winExtent, resized, shouldClose, extent, vreSwapChain,
                   vrePipeline, commandBuffers, pool, imageIndex>>

\* lines 69-82 as called from the constructor (line 14) or line 157
CreateCommandBuffers(next) ==
    \E ok \in BOOLEAN :
        LET n == vreSwapChain.imageCount
            new == AllocatedBuffers(commandBuffers, pool, n, ok)
        IN /\ commandBuffers' = new
           /\ pool' = IF ok THEN pool \cup Range(new) ELSE pool
           /\ trace' = LogN("createCommandBuffers", n,
                            IF ok THEN VK_SUCCESS ELSE "failed")
           /\ IF ok THEN pc' = next /\ error' = error
                    ELSE Throw(AllocationError)

CtorCreateCommandBuffers ==
    /\ pc = "ctor_cb"
    /\ UNCHANGED freeCase
    /\ CreateCommandBuffers("run_test")
    /\ UNCHANGED <<caller, winExtent, resized, shouldClose, extent,
                   vreSwapChain, vrePipeline, pipelineLayout, imageIndex>>

\* ------------------------------------------------------ recreateSwapChain
\* variant of lines 147-150: the device-idle wait left out
AfterLoop_NoIdle == "rs_construct"

\* lines 146-148: what follows the polling loop is vkDeviceWaitIdle
AfterLoop == "rs_idle"

\* line 141 and the first test of the loop condition (line 142)
RsReadExtent ==
    /\ pc = "rs_read0"
    /\ UNCHANGED freeCase
    /\ extent' = winExtent
    /\ trace' = Log("getExtent")
    /\ pc' = IF ZeroExtent(extent') THEN "rs_loop" ELSE AfterLoop
    /\ UNCHANGED <<caller, winExtent, resized, shouldClose, vreSwapChain,
                   vrePipeline, pipelineLayout, commandBuffers, pool,
                   imageIndex, error>>

\* line 144: the re-read that opens the loop body
RsLoopReadExtent ==
    /\ pc = "rs_loop"
    /\ UNCHANGED freeCase
    /\ extent' = winExtent
    /\ trace' = LogLoop("getExtent", 0)
    /\ pc' = "rs_wait"
    /\ UNCHANGED <<caller, winExtent, resized, shouldClose, vreSwapChain,
                   vrePipeline, pipelineLayout, commandBuffers, pool,
                   imageIndex, error>>

\* line 145, then the loop condition (line 142) on the local extent.  The
\* trace notes whether the window has area when the wait returns (1) or
\* not (0).
RsWaitEvents ==
    /\ pc = "rs_wait"
    /\ UNCHANGED freeCase
    /\ DeliverEvents
    /\ trace' = LogLoop("glfwWaitEvents",
                        IF winExtent'[1] # 0 /\ winExtent'[2] # 0 THEN 1 ELSE 0)
    /\ pc' = IF ZeroExtent(extent) THEN "rs_loop" ELSE AfterLoop
    /\ UNCHANGED <<caller, extent, vreSwapChain, vrePipeline, pipelineLayout,
                   commandBuffers, pool, imageIndex, error>>

\* line 148
RsDeviceWaitIdle ==
    /\ pc = "rs_idle"
    /\ UNCHANGED freeCase
    /\ trace' = Log("vkDeviceWaitIdle")
    /\ pc' = "rs_construct"
    /\ UNCHANGED <<caller, winExtent, resized, shouldClose, extent,
                   vreSwapChain, vrePipeline, pipelineLayout, commandBuffers,
                   pool, imageIndex, error>>

\* lines 150-155: build the swap chain, then decide about the buffers
RsConstruct ==
    /\ pc = "rs_construct"
    /\ UNCHANGED freeCase
    /\ \E n \in ImageCounts :
        /\ vreSwapChain' = NewSwapChain(vreSwapChain, extent, n)
        /\ trace' = Append(trace, Ev("VreSwapChain", extent, n, "-"))
    /\ pc' = IF vreSwapChain = NullSwapChain THEN "rs_pipeline"
             ELSE IF NeedRealloc(vreSwapChain', commandBuffers) THEN "rs_free"
             ELSE "rs_pipeline"
    /\ UNCHANGED <<caller, winExtent, resized, shouldClose, extent,
                   vrePipeline, pipelineLayout, commandBuffers, pool,
                   imageIndex, error>>

\* line 156: freeCommandBuffers (lines 84-92)
\* variant of lines 157-158: createCommandBuffers without freeCommandBuffers
RsFreeCommandBuffers_Skipped ==
    /\ pc = "rs_free"
    /\ pc' = "rs_alloc"
    /\ UNCHANGED <<caller, winExtent, resized, shouldClose, extent,
                   vreSwapChain, vrePipeline, pipelineLayout, commandBuffers,
                   pool, imageIndex, error, trace, freeCase>>

RsFreeCommandBuffers ==
    /\ pc = "rs_free"
    /\ UNCHANGED freeCase
    /\ pool' = pool \ FreedBuffers(commandBuffers)
    /\ commandBuffers' = <<>>
    /\ trace' = LogN("freeCommandBuffers", Len(commandBuffers), "-")
    /\ pc' = "rs_alloc"
    /\ UNCHANGED <<caller, winExtent, resized, shouldClose, extent,
                   vreSwapChain, vrePipeline, pipelineLayout, imageIndex,
                   error>>

\* line 157
RsCreateCommandBuffers ==
    /\ pc = "rs_alloc"
    /\ UNCHANGED freeCase
    /\ CreateCommandBuffers("rs_pipeline")
    /\ UNCHANGED <<caller, winExtent, resized, shouldClose, extent,
                   vreSwapChain, vrePipeline, pipelineLayout, imageIndex>>

\* variant of line 162: the rebuild skipped when a pipeline exists, as the
\* comment at line 161 considers
CreatedPipeline_KeepOld(sc, old) ==
    IF old = NullPipeline THEN [renderPass |-> sc.serial] ELSE old

\* lines 62-66: the pipeline is configured with the render pass of the
\* current swap chain
CreatedPipeline(sc, old) == [renderPass |-> sc.serial]

\* line 162: createPipeline (lines 57-67), then return to the caller
RsCreatePipeline ==
    /\ pc = "rs_pipeline"
    /\ UNCHANGED freeCase
    /\ trace' = LogN("createPipeline", 0, "-")
    /\ IF vreSwapChain = NullSwapChain \/ ~pipelineLayout
       THEN /\ Throw("assertion failed")
            /\ UNCHANGED vrePipeline
       ELSE /\ vrePipeline' = CreatedPipeline(vreSwapChain, vrePipeline)
            /\ pc' = IF caller = "ctor" THEN "ctor_cb" ELSE "run_test"
            /\ error' = error
    /\ UNCHANGED <<caller, winExtent, resized, shouldClose, extent,
                   vreSwapChain, pipelineLayout, commandBuffers, pool,
                   imageIndex>>

\* -------------------------------------------------------------------- run
\* variant of line 24: the close request never looked at
RunTestShouldClose_Ignore ==
    /\ pc = "run_test"
    /\ pc' = "run_poll"
    /\ extent' = NoExt
    /\ imageIndex' = 0
    /\ trace' = <<>>
    /\ UNCHANGED <<caller, winExtent, resized, shouldClose, vreSwapChain,
                   vrePipeline, pipelineLayout, commandBuffers, pool, error,
                   freeCase>>

\* line 24: while (!vreWindow.shoudClose()).  The constructor or drawFrame
\* call before it is over: its locals and its trace are gone.
RunTestShouldClose ==
    /\ pc = "run_test"
    /\ UNCHANGED freeCase
    /\ pc' = IF shouldClose THEN "run_idle" ELSE "run_poll"
    /\ extent' = NoExt
    /\ imageIndex' = 0
    /\ trace' = <<>>
    /\ UNCHANGED <<caller, winExtent, resized, shouldClose, vreSwapChain,
                   vrePipeline, pipelineLayout, commandBuffers, pool, error>>

\* line 25: glfwPollEvents, then drawFrame is entered
RunPollEvents ==
    /\ pc = "run_poll"
    /\ UNCHANGED freeCase
    /\ DeliverEvents
    /\ pc' = "df_acquire"
    /\ UNCHANGED <<caller, extent, vreSwapChain, vrePipeline, pipelineLayout,
                   commandBuffers, pool, imageIndex, error, trace>>

\* line 29
RunDeviceWaitIdle ==
    /\ pc = "run_idle"
    /\ UNCHANGED freeCase
    /\ pc' = "done"
    /\ UNCHANGED <<caller, winExtent, resized, shouldClose, extent,
                   vreSwapChain, vrePipeline, pipelineLayout, commandBuffers,
                   pool, imageIndex, error, trace>>

\* -------------------------------------------------------------- drawFrame
\* lines 167-177: acquire and the two tests of its result
DfAcquire ==
    /\ pc = "df_acquire"
    /\ UNCHANGED freeCase
    /\ \E r \in AcquireResults, i \in 0..(vreSwapChain.imageCount - 1) :
        /\ (r \notin {VK_SUCCESS, VK_SUBOPTIMAL_KHR}) => i = 0
        /\ LET t == <<Ev("acquireNextImage", NoExt, i, r)>>
           IN IF AcquireOutOfDate(r)
              THEN /\ CallRecreate("acquire", t)
                   /\ UNCHANGED <<imageIndex, error>>
              ELSE IF AcquireFatal(r)
              THEN /\ Throw(AcquireError)
                   /\ trace' = t
                   /\ UNCHANGED <<imageIndex, caller>>
              ELSE /\ imageIndex' = i
                   /\ trace' = t
                   /\ pc' = "df_record"
                   /\ UNCHANGED <<caller, error>>
    /\ UNCHANGED <<winExtent, resized, shouldClose, extent, vreSwapChain,
                   vrePipeline, pipelineLayout, commandBuffers, pool>>

\* line 179: recordCommandBuffer(imageIndex) (lines 94-137).  Indexing past
\* the end of commandBuffers is undefined: the build may crash or record
\* into whatever handle it finds there.
DfRecordCommandBuffer ==
    /\ pc = "df_record"
    /\ UNCHANGED freeCase
    /\ \E ok \in BOOLEAN :
        IF imageIndex >= Len(commandBuffers)
        THEN IF ok
             THEN /\ trace' = LogN("recordCommandBuffer", imageIndex, "garbage")
                  /\ pc' = "df_submit"
                  /\ error' = error
             ELSE /\ trace' = trace
                  /\ Throw(OutOfRange)
        ELSE IF ok
        THEN /\ trace' = LogN("recordCommandBuffer", imageIndex, VK_SUCCESS)
             /\ pc' = "df_submit"
             /\ error' = error
        ELSE /\ trace' = LogN("recordCommandBuffer", imageIndex, "failed")
             /\ Throw(RecordError)
    /\ UNCHANGED <<caller, winExtent, resized, shouldClose, extent,
                   vreSwapChain, vrePipeline, pipelineLayout, commandBuffers,
                   pool, imageIndex>>

\* lines 181-191: submit and the two tests of its result
DfSubmit ==
    /\ pc = "df_submit"
    /\ UNCHANGED freeCase
    /\ \E r \in SubmitResults :
        LET t == LogN("submitCommandBuffers", imageIndex, r)
        IN IF NeedRecreate(r, resized)
           THEN /\ resized' = FALSE
                /\ CallRecreate("submit",
                       Append(t, Ev("resetWindowResizedFlag", NoExt, 0, "-")))
                /\ error' = error
           ELSE IF PresentFatal(r)
           THEN /\ Throw(PresentError)
                /\ trace' = t
                /\ UNCHANGED <<resized, caller>>
           ELSE /\ pc' = "run_test"
                /\ trace' = t
                /\ UNCHANGED <<resized, caller, error>>
    /\ UNCHANGED <<winExtent, shouldClose, extent, vreSwapChain, vrePipeline,
                   pipelineLayout, commandBuffers, pool, imageIndex>>

Next ==
    \/ CtorCreatePipelineLayout
    \/ CtorCreateCommandBuffers
    \/ RsReadExtent
    \/ RsLoopReadExtent
    \/ RsWaitEvents
    \/ RsDeviceWaitIdle
    \/ RsConstruct
    \/ RsFreeCommandBuffers
    \/ RsCreateCommandBuffers
    \/ RsCreatePipeline
    \/ RunTestShouldClose
    \/ RunPollEvents
    \/ RunDeviceWaitIdle
    \/ DfAcquire
    \/ DfRecordCommandBuffer
    \/ DfSubmit

Spec == Init /\ [][Next]_vars

\* The thread runs: every step it can take by itself it takes.  Only
\* glfwWaitEvents (line 145) waits for the outside: it returns when an
\* event arrives, and none need arrive.
ProgramStep ==
    \/ CtorCreatePipelineLayout
    \/ CtorCreateCommandBuffers
    \/ RsReadExtent
    \/ RsLoopReadExtent
    \/ RsDeviceWaitIdle
    \/ RsConstruct
    \/ RsFreeCommandBuffers
    \/ RsCreateCommandBuffers
    \/ RsCreatePipeline
    \/ RunTestShouldClose
    \/ RunPollEvents
    \/ RunDeviceWaitIdle
    \/ DfAcquire
    \/ DfRecordCommandBuffer
    \/ DfSubmit

FairSpec == Spec /\ WF_vars(ProgramStep)

\* ------------------------------------------- freeCommandBuffers on its own
\* The sets freeCommandBuffers is called on, by size: the small ones and
\* those around 2^24.  Handles do not matter to lines 84-92, counts do: the
\* set holds size buffers, the pool has outstanding = size + others out.
FreeSizes == (0..MaxHeld) \cup ((FloatExactMax - 2)..(FloatExactMax + 4))

FreeInit ==
    /\ pc = "free"
    /\ caller = "ctor"
    /\ winExtent = <<800, 600>>
    /\ resized = FALSE
    /\ shouldClose = FALSE
    /\ extent = NoExt
    /\ vreSwapChain = NullSwapChain
    /\ vrePipeline = NullPipeline
    /\ pipelineLayout = FALSE
    /\ commandBuffers = <<>>
    /\ pool = {}
    /\ imageIndex = 0
    /\ error = NoError
    /\ trace = <<>>
    /\ \E n \in FreeSizes, o \in 0..MaxOthers :
        freeCase = [size |-> n, outstanding |-> n + o, others |-> o,
                    calls |-> 0, fault |-> FALSE]

\* lines 84-92 on a set of freeCase.size buffers: vkFreeCommandBuffers is
\* told to free FloatCast(size) buffers starting at commandBuffers.data(),
\* then the set is cleared.  A count above the size makes the driver read
\* past the end of the array, which is undefined: it may fault or go on.
FcFreeCommandBuffers ==
    /\ pc = "free"
    /\ freeCase.calls < 2
    /\ ~freeCase.fault
    /\ LET count == FloatCast(freeCase.size)
       IN \E fault \in BOOLEAN :
           /\ fault => count > freeCase.size
           /\ freeCase' =
                [size |-> 0,
                 outstanding |-> freeCase.outstanding
                     - (IF count <= freeCase.size THEN count ELSE freeCase.size),
                 others |-> freeCase.others,
                 calls |-> freeCase.calls + 1,
                 fault |-> fault]
    /\ UNCHANGED <<pc, caller, winExtent, resized, shouldClose, extent,
                   vreSwapChain, vrePipeline, pipelineLayout, commandBuffers,
                   pool, imageIndex, error, trace>>

FreeNext == FcFreeCommandBuffers

FreeSpec == FreeInit /\ [][FreeNext]_vars

\* ================================================================ claims
Last(s) == s[Len(s)]
NonZeroArea(e) == e[1] # 0 /\ e[2] # 0
InRecreateLocs == {"rs_read0", "rs_loop", "rs_wait", "rs_idle",
                   "rs_construct", "rs_free", "rs_alloc", "rs_pipeline"}
InRecreate == pc \in InRecreateLocs
\* recreateSwapChain has just returned to its caller without error
RecreateReturned ==
    /\ pc \in {"ctor_cb", "run_test"}
    /\ Len(trace) > 0
    /\ Last(trace).op = "createPipeline"
\* the current trace is that of a drawFrame call
InFrame == Len(trace) > 0 /\ trace[1].op = "acquireNextImage"
SubsetOps(from, ops) == \A i \in from..Len(trace) : trace[i].op \in ops
RecreateOps == {"getExtent", "glfwWaitEvents", "more", "vkDeviceWaitIdle",
                "VreSwapChain", "freeCommandBuffers", "createCommandBuffers",
                "createPipeline"}

\* ---- C1
\* C1 as stated: after every recreateSwapChain that returns without error,
\* the constructor's first call included, the number of command buffers
\* equals imageCount() of the current swap chain.
C1_Original ==
    RecreateReturned => Len(commandBuffers) = vreSwapChain.imageCount

\* C1 amended: after every recreateSwapChain that returns without error and
\* was called from drawFrame (a swap chain existed), the number of command
\* buffers equals imageCount(); after the constructor's first call the set
\* is still empty although imageCount() >= 1, and the equality is there once
\* the constructor's createCommandBuffers has run.
C1_Amended ==
    /\ (RecreateReturned /\ caller # "ctor")
          => Len(commandBuffers) = vreSwapChain.imageCount
    /\ (RecreateReturned /\ caller = "ctor")
          => /\ pc = "ctor_cb"
             /\ commandBuffers = <<>>
             /\ vreSwapChain.imageCount >= 1
    /\ pc \in {"run_test", "run_poll", "df_acquire"}
          => Len(commandBuffers) = vreSwapChain.imageCount

C1_Witness ==
    /\ RecreateReturned
    /\ caller = "submit"
    /\ Count(trace, "freeCommandBuffers") = 1
    /\ Len(commandBuffers) = 1

\* ---- C2
\* C2: whenever recordCommandBuffer(imageIndex) is entered, the command
\* buffer set is as long as the current swap chain's imageCount(), so the
\* acquired index addresses an existing, allocated buffer.
C2_RecordIndexValid ==
    pc = "df_record" =>
        /\ Len(commandBuffers) = vreSwapChain.imageCount
        /\ imageIndex \in 0..(Len(commandBuffers) - 1)
        /\ commandBuffers[imageIndex + 1] \in pool

C2_Witness ==
    /\ pc = "df_record"
    /\ caller = "submit"
    /\ vreSwapChain.serial = 2
    /\ imageIndex = vreSwapChain.imageCount - 1
    /\ resized

\* ---- C3
\* C3 as stated: a submission result that is neither success, out-of-date
\* nor suboptimal makes drawFrame fail with the present error and perform
\* no recreation, whatever the resize notification says.
C3_Original ==
    \A i \in Positions(trace, "submitCommandBuffers") :
        trace[i].res \notin {VK_SUCCESS, VK_ERROR_OUT_OF_DATE_KHR,
                             VK_SUBOPTIMAL_KHR}
        => /\ pc = "failed"
           /\ error = PresentError
           /\ Count(trace, "recreateSwapChain") = 0

\* ---- C4
AcquiredOutOfDate == InFrame /\ trace[1].res = VK_ERROR_OUT_OF_DATE_KHR

\* C4: a drawFrame whose acquire reports out-of-date records nothing,
\* submits nothing, starts recreateSwapChain at once and only once, raises
\* none of drawFrame's own errors, and has run exactly one recreation cycle
\* and has no error when it returns.
C4_OutOfDateAcquire ==
    AcquiredOutOfDate =>
        /\ Count(trace, "recordCommandBuffer") = 0
        /\ Count(trace, "submitCommandBuffers") = 0
        /\ Count(trace, "resetWindowResizedFlag") = 0
        /\ Len(trace) >= 2 /\ trace[2].op = "recreateSwapChain"
        /\ Count(trace, "recreateSwapChain") = 1
        /\ error \notin {AcquireError, RecordError, PresentError}
        /\ (pc = "failed") => (error = AllocationError)
        /\ (pc \in {"run_test", "run_poll", "run_idle", "done"})
              => /\ error = NoError
                 /\ Count(trace, "VreSwapChain") = 1
                 /\ Count(trace, "vkDeviceWaitIdle") = 1
                 /\ Last(trace).op = "createPipeline"

C4_Witness ==
    /\ AcquiredOutOfDate
    /\ pc = "run_test"
    /\ Last(trace).op = "createPipeline"
    /\ error = NoError

\* ---- C5
AcquiredImage == InFrame /\ trace[1].res \in {VK_SUCCESS, VK_SUBOPTIMAL_KHR}

\* the frame's record and submit came first, once each, for the acquired
\* index, then the reset of the notification, then the recreation
C5_Order ==
    (AcquiredImage /\ Count(trace, "recreateSwapChain") > 0) =>
        /\ Len(trace) >= 5
        /\ trace[2].op = "recordCommandBuffer" /\ trace[2].n = trace[1].n
        /\ trace[2].res = VK_SUCCESS
        /\ trace[3].op = "submitCommandBuffers" /\ trace[3].n = trace[1].n
        /\ trace[4].op = "resetWindowResizedFlag"
        /\ trace[5].op = "recreateSwapChain"
        /\ SubsetOps(6, RecreateOps)
        /\ (pc = "rs_read0" => ~resized)
        /\ error \notin {AcquireError, RecordError, PresentError}
        /\ (pc \in {"run_test", "run_poll", "run_idle", "done"})
              => (error = NoError /\ Count(trace, "VreSwapChain") = 1)

\* the step that submits: stale result or pending notification => the
\* notification is cleared and recreateSwapChain is entered
C5_Trigger ==
    (pc = "df_submit" /\ pc' # "df_submit") =>
        LET r == trace'[Len(trace) + 1].res
        IN (r \in {VK_ERROR_OUT_OF_DATE_KHR, VK_SUBOPTIMAL_KHR} \/ resized)
           => /\ pc' = "rs_read0"
              /\ ~resized'
              /\ error' = NoError
              /\ Len(trace') = Len(trace) + 3

\* C5: after a successful or suboptimal acquire, a submit result of
\* out-of-date or suboptimal, or a pending resize notification, makes
\* drawFrame enter recreateSwapChain only after the frame's buffer was
\* recorded once and submitted once, with the notification cleared first,
\* and drawFrame returns without error.
C5_RecreateAfterSubmit == []C5_Order /\ [][C5_Trigger]_vars

C5_Witness ==
    /\ AcquiredImage
    /\ pc = "run_test"
    /\ Len(trace) >= 5
    /\ trace[3].res = VK_SUCCESS
    /\ Last(trace).op = "createPipeline"

\* ---- C6
\* C6: no swap chain is ever constructed with a zero width or height, and
\* recreateSwapChain is past its loop only with a non-zero local extent.
C6_NeverZeroArea ==
    /\ vreSwapChain # NullSwapChain => NonZeroArea(vreSwapChain.extent)
    /\ \A i \in Positions(trace, "VreSwapChain") : NonZeroArea(trace[i].ext)
    /\ pc \in {"rs_idle", "rs_construct", "rs_free", "rs_alloc", "rs_pipeline"}
          => NonZeroArea(extent)
    /\ RecreateReturned => NonZeroArea(extent)

C6_Witness ==
    /\ RecreateReturned
    /\ Count(trace, "glfwWaitEvents") >= 2
    /\ vreSwapChain.extent = extent
    /\ NonZeroArea(vreSwapChain.extent)

\* ---- C7
Reads == SelectSeq(trace, LAMBDA e : e.op = "getExtent")
Waits == SelectSeq(trace, LAMBDA e : e.op = "glfwWaitEvents")
\* every iteration of the polling loop is in the trace
LoopRecorded == Count(trace, "more") = 0
\* recreateSwapChain found the window without area; the window got its
\* area in the N-th event wait and kept it
C7_Scenario(N) ==
    /\ LoopRecorded
    /\ N \in 1..Len(Waits)
    /\ \A j \in 1..(N - 1) : Waits[j].n = 0
    /\ \A j \in N..Len(Waits) : Waits[j].n = 1

\* C7 as stated: for a window at (0,0) that becomes non-zero after N polls,
\* one recreateSwapChain reads the extent exactly N+1 times and constructs
\* exactly one swap chain, at the non-zero extent.
C7_Original ==
    \A N \in 1..MaxPolls :
        (C7_Scenario(N) /\ Count(trace, "VreSwapChain") >= 1)
        => /\ Len(Reads) = N + 1
           /\ Count(trace, "VreSwapChain") = 1
           /\ vreSwapChain.extent = winExtent

\* ---- C8
C8_State ==
    InFrame =>
        /\ (trace[1].res \notin {VK_SUCCESS, VK_SUBOPTIMAL_KHR,
                                 VK_ERROR_OUT_OF_DATE_KHR})
              => /\ pc = "failed"
                 /\ error = AcquireError
                 /\ Len(trace) = 1
        /\ (trace[1].res = VK_SUBOPTIMAL_KHR)
              => /\ error # AcquireError
                 /\ (pc # "df_record" /\ error # RecordError)
                       => /\ Len(trace) >= 2
                          /\ trace[2].op = "recordCommandBuffer"
                          /\ trace[2].n = trace[1].n
                 /\ (pc \notin {"df_record", "df_submit"} /\ error = NoError)
                       => /\ Len(trace) >= 3
                          /\ trace[3].op = "submitCommandBuffers"
                          /\ trace[3].n = trace[1].n

C8_Step ==
    (pc = "df_acquire" /\ pc' # "df_acquire") =>
        LET r == trace'[1].res
        IN /\ r \in {VK_SUCCESS, VK_SUBOPTIMAL_KHR}
                => /\ pc' = "df_record"
                   /\ imageIndex' = trace'[1].n
                   /\ error' = NoError
                   /\ UNCHANGED <<vreSwapChain, vrePipeline, commandBuffers,
                                  pool, resized, winExtent>>
           /\ r \notin {VK_SUCCESS, VK_SUBOPTIMAL_KHR, VK_ERROR_OUT_OF_DATE_KHR}
                => /\ pc' = "failed"
                   /\ error' = AcquireError
                   /\ UNCHANGED <<vreSwapChain, vrePipeline, commandBuffers,
                                  pool, resized, winExtent>>

\* C8: an acquire result other than success, suboptimal or out-of-date makes
\* drawFrame fail with the acquire error, nothing recorded, submitted or
\* recreated; a suboptimal acquire goes on to record and submit the acquired
\* index as a successful one does.
C8_AcquireResults == []C8_State /\ [][C8_Step]_vars

C8_Witness ==
    /\ InFrame
    /\ trace[1].res = VK_SUBOPTIMAL_KHR
    /\ pc = "run_test"
    /\ Len(trace) = 3
    /\ trace[3].res = VK_SUCCESS

\* ---- C9
C9_Step ==
    /\ (pc = "rs_construct" /\ pc' # "rs_construct"
           /\ vreSwapChain # NullSwapChain
           /\ vreSwapChain'.imageCount = Len(commandBuffers))
          => /\ pc' = "rs_pipeline"
             /\ vreSwapChain' # vreSwapChain
             /\ UNCHANGED <<commandBuffers, pool>>
    /\ (pc = "rs_pipeline" /\ pc' # "rs_pipeline")
          => /\ UNCHANGED <<commandBuffers, pool>>
             /\ vrePipeline' # vrePipeline
             /\ vrePipeline'.renderPass = vreSwapChain.serial

\* C9: a recreation whose new swap chain has as many images as there are
\* command buffers replaces the swap chain and the pipeline and neither
\* frees nor allocates: the command buffer set is the same afterwards.
C9_SameCountKeepsBuffers == [][C9_Step]_vars

C9_Witness ==
    /\ RecreateReturned
    /\ caller = "submit"
    /\ Count(trace, "freeCommandBuffers") = 0
    /\ Count(trace, "createCommandBuffers") = 0
    /\ vreSwapChain.extent = <<1280, 720>>
    /\ vreSwapChain.serial = 1
    /\ Len(commandBuffers) = vreSwapChain.imageCount

\* ---- C10
C10_Step ==
    /\ (pc = "rs_construct" /\ pc' # "rs_construct"
           /\ vreSwapChain # NullSwapChain
           /\ vreSwapChain'.imageCount # Len(commandBuffers))
          => (pc' = "rs_free" /\ UNCHANGED <<commandBuffers, pool>>)
    /\ (pc = "rs_free" /\ pc' # "rs_free")
          => /\ pc' = "rs_alloc"
             /\ commandBuffers' = <<>>
             /\ pool' = {}
    /\ (pc = "rs_alloc" /\ pc' = "rs_pipeline")
          => /\ commandBuffers = <<>>
             /\ Len(commandBuffers') = vreSwapChain.imageCount
             /\ pool' = Range(commandBuffers')
             /\ Cardinality(pool') = vreSwapChain.imageCount

\* C10: a recreation whose new swap chain's image count differs from the
\* number of command buffers first frees every held buffer and then
\* allocates a new set as long as the new image count.
C10_DifferentCountReallocates == [][C10_Step]_vars

C10_Witness ==
    /\ pc = "rs_pipeline"
    /\ caller = "acquire"
    /\ Count(trace, "freeCommandBuffers") = 1
    /\ Last(trace).op = "createCommandBuffers"
    /\ Last(trace).res = VK_SUCCESS
    /\ Len(commandBuffers) = 1

\* ---- C11
\* the constructor has just finished
CtorDone ==
    /\ pc = "run_test"
    /\ Len(trace) > 0
    /\ trace[1].op = "createPipelineLayout"

C11_State ==
    /\ CtorDone
          => /\ NonZeroArea(vreSwapChain.extent)
             /\ Count(trace, "createCommandBuffers") = 1
             /\ Last(trace).op = "createCommandBuffers"
             /\ Last(trace).n = vreSwapChain.imageCount
             /\ Len(commandBuffers) = vreSwapChain.imageCount
             /\ pool = Range(commandBuffers)
             /\ Cardinality(pool) = vreSwapChain.imageCount
    /\ (pc = "df_submit" /\ InFrame)
          => /\ Len(trace) = 2
             /\ trace[2].op = "recordCommandBuffer"
             /\ trace[2].n = trace[1].n
             /\ trace[2].n = imageIndex
             /\ commandBuffers[imageIndex + 1] \in pool

C11_Step ==
    /\ (pc \in {"df_acquire", "df_record"})
          => UNCHANGED <<vreSwapChain, commandBuffers, pool, vrePipeline>>
    /\ (pc = "df_submit" /\ pc' # "df_submit" /\ ~resized
           /\ trace'[Len(trace) + 1].res = VK_SUCCESS)
          => /\ pc' = "run_test"
             /\ error' = NoError
             /\ Len(trace') = 3
             /\ trace'[3].op = "submitCommandBuffers"
             /\ trace'[3].n = trace'[1].n
             /\ Count(trace', "recreateSwapChain") = 0
             /\ UNCHANGED <<vreSwapChain, commandBuffers, pool, vrePipeline>>

\* C11: after construction with a swap chain of k images exactly k command
\* buffers are allocated; a frame whose acquire and submit succeed with no
\* resize notification pending records and submits the buffer at the
\* acquired index, recreates nothing and leaves the swap chain, the command
\* buffer set and the pipeline as they were.
C11_BootAndPlainFrame == []C11_State /\ [][C11_Step]_vars

C11_Witness ==
    /\ pc = "run_test"
    /\ InFrame
    /\ Len(trace) = 3
    /\ trace[1].res = VK_SUCCESS
    /\ trace[3].res = VK_SUCCESS
    /\ trace[1].n = 1
    /\ vreSwapChain.serial = 0
    /\ ~resized

LoopOps == {"getExtent", "glfwWaitEvents", "more"}
C13_State ==
    /\ \A i \in Positions(trace, "VreSwapChain")
               \cup Positions(trace, "freeCommandBuffers") :
          \E j \in Positions(trace, "vkDeviceWaitIdle") :
              /\ j < i
              /\ \E k \in Positions(trace, "recreateSwapChain") : k < j
    /\ \A j \in Positions(trace, "vkDeviceWaitIdle") :
          /\ j > 1 /\ trace[j - 1].op \in LoopOps
          /\ \A i \in (j + 1)..Len(trace) : trace[i].op \notin LoopOps
    /\ pc \in {"rs_construct", "rs_free", "rs_alloc", "rs_pipeline"}
          => Count(trace, "vkDeviceWaitIdle") = 1

C13_Step ==
    /\ vreSwapChain' # vreSwapChain
          => /\ pc = "rs_construct"
             /\ Last(trace).op = "vkDeviceWaitIdle"
    /\ (commandBuffers' # commandBuffers /\ pc # "ctor_cb")
          => Count(trace, "vkDeviceWaitIdle") = 1

\* C13: in every recreateSwapChain the device-idle wait comes after the
\* polling loop has ended and before the swap chain is constructed or
\* replaced and before any command buffer is freed; no swap chain is
\* replaced without a device-idle wait before it in the same call.
C13_IdleBeforeReplace == []C13_State /\ [][C13_Step]_vars

C13_Witness ==
    /\ pc = "rs_pipeline"
    /\ Count(trace, "glfwWaitEvents") >= 1
    /\ Count(trace, "freeCommandBuffers") = 1
    /\ Count(trace, "vkDeviceWaitIdle") = 1

\* ---- C14
C14_State ==
    /\ RecreateReturned
          => /\ vrePipeline # NullPipeline
             /\ vrePipeline.renderPass = vreSwapChain.serial
    /\ (pc \notin InRecreateLocs \cup {"failed"})
          => Count(trace, "createPipeline") = Count(trace, "VreSwapChain")
    /\ pc \in {"df_acquire", "df_record", "df_submit"}
          => /\ vrePipeline # NullPipeline
             /\ vrePipeline.renderPass = vreSwapChain.serial

C14_Step ==
    (InRecreate /\ pc' \notin InRecreateLocs /\ pc' # "failed")
        => /\ pc = "rs_pipeline"
           /\ Last(trace').op = "createPipeline"
           /\ vrePipeline'.renderPass = vreSwapChain'.serial
           /\ vreSwapChain' = vreSwapChain

RunExited == pc \in {"run_idle", "done"}
C15_Step ==
    /\ (pc = "run_test" /\ pc' # "run_test")
          => (pc' = IF shouldClose THEN "run_idle" ELSE "run_poll")
    /\ (pc' = "run_idle" /\ pc # "run_idle") => (pc = "run_test" /\ shouldClose)
    /\ (pc' = "df_acquire" /\ pc # "df_acquire") => pc = "run_poll"
    /\ (pc' = "run_poll" /\ pc # "run_poll") => (pc = "run_test" /\ ~shouldClose)
    /\ RunExited => (pc' \in {"run_idle", "done"})

\* C15 as stated, in the case it singles out: once the close signal is
\* raised (it stays raised) while the window is at zero extent, run()
\* eventually observes it and leaves the frame loop (or a fatal error has
\* ended run() before).
C15_Original ==
    (shouldClose /\ ZeroExtent(winExtent)) ~> (RunExited \/ pc = "failed")

\* C15 amended: the close signal is looked at only between frames; once
\* run() has seen it no drawFrame starts and the final device-idle wait is
\* performed; a signal that is raised while the window has a non-zero extent
\* and recreateSwapChain is not inside its polling loop is eventually seen
\* (unless a fatal error ends run() first).  A signal raised while
\* recreateSwapChain polls a zero extent is not seen before that loop ends.
C15_Amended ==
    /\ [][C15_Step]_vars
    /\ (pc = "run_idle") ~> (pc = "done")
    /\ (shouldClose /\ NonZeroArea(winExtent) /\ pc \notin {"rs_loop", "rs_wait"})
          ~> (pc = "done" \/ pc = "failed")

C15_Witness ==
    /\ pc = "done"
    /\ shouldClose
    /\ caller = "submit"
    /\ NonZeroArea(winExtent)

\* ---- C16
\* C16: whenever createPipeline is entered, from the constructor or from
\* drawFrame, the swap chain and the pipeline layout exist; its assertions
\* never fail.
C16_PipelinePrecondition ==
    /\ pc = "rs_pipeline" => (vreSwapChain # NullSwapChain /\ pipelineLayout)
    /\ error # "assertion failed"

C16_Witness ==
    /\ pc = "rs_pipeline"
    /\ caller = "ctor"
    /\ vrePipeline = NullPipeline
    /\ vreSwapChain # NullSwapChain

\* ---- C17
\* C17 as stated: a drawFrame call that has recreated the swap chain, with
\* no event delivered during the recreation, returns with the resize
\* notification cleared.
C17_Original ==
    (/\ RecreateReturned
     /\ caller # "ctor"
     /\ Count(trace, "glfwWaitEvents") = 0
     /\ Count(trace, "more") = 0)
        => ~resized

\* ---- C18
\* C18 as stated: recreateSwapChain needs no window event once the window
\* has a non-zero extent, so it is never inside glfwWaitEvents, which
\* returns only when an event arrives, while the window has one.
C18_Original == ~(pc = "rs_wait" /\ NonZeroArea(winExtent))

\* ---- C19
\* C19 as stated: the extent given to the VreSwapChain constructor is the
\* extent the window has at that moment.
C19_Original == (pc = "rs_construct") => (extent = winExtent)

\* ---- C20
\* C20: createCommandBuffers is entered only with an empty command buffer
\* set, and unless an allocation has just failed the buffers outstanding
\* from the command pool are exactly the elements of the set, each once.
C20_NoLeakNoDoubleAllocation ==
    /\ pc \in {"ctor_cb", "rs_alloc"} => commandBuffers = <<>>
    /\ error # AllocationError =>
          /\ pool = Range(commandBuffers)
          /\ Cardinality(pool) = Len(commandBuffers)

C20_Witness ==
    /\ pc = "rs_alloc"
    /\ caller = "submit"
    /\ pool = {}
    /\ vreSwapChain.imageCount = MaxImages

====
